---- MODULE Spec2Model ----
(***************************************************************************)
(* Model of get_analog (src/main.py): the analog-year ranking of the       *)
(* snowfall predictor.  The signal store (the ONI and PDO series) is the   *)
(* state that outlives a call; a call of get_analog is one action, which   *)
(* leaves its arguments, its locals at the point of return and its         *)
(* outcome (a returned list or a KeyError) in the state.                   *)
(*                                                                         *)
(* Python dicts are ordered: a dict is modelled as a sequence of           *)
(* <<key, value>> pairs in insertion order.  Observations are modelled as  *)
(* integers.  A fused score (oni_place + pdo_place) / 2 is held as         *)
(* <<whole, halves>>, i.e. whole + halves * 0.5.                           *)
(***************************************************************************)
EXTENDS Integers, Sequences, FiniteSets, TLC

VARIABLES
    oni_values,               \* ONI series: year -> observation sequence
    pdo_values,               \* PDO series: year -> observation sequence
    year,                     \* arguments of the latest call
    look_back,
    start_year,
    raise_to,
    years_to_return,
    current_oni_progression,  \* locals of the latest call at its return
    current_pdo_progression,
    analog_oni_progression,   \* per candidate, before truncation (line 61-67)
    analog_pdo_progression,   \* per candidate, before truncation (line 68)
    oni_analogs,              \* dict year -> distance vector, after line 82
    pdo_analogs,              \* dict year -> distance vector, after line 83
    analogs,                  \* dict year -> fused score, after line 93
    outcome,                  \* what the latest call gave its caller
    earlier                   \* an earlier call noted by the caller

vars == <<oni_values, pdo_values, year, look_back, start_year, raise_to,
          years_to_return, current_oni_progression, current_pdo_progression,
          analog_oni_progression, analog_pdo_progression, oni_analogs,
          pdo_analogs, analogs, outcome, earlier>>

store == <<oni_values, pdo_values>>

arguments == <<year, look_back, start_year, raise_to, years_to_return>>

-----------------------------------------------------------------------------
(* Program constants: the defaults of get_analog's signature.              *)

FirstYear == 1964

DefaultLookBack == 0

DefaultRaiseTo == 1

DefaultYearsToReturn == 5

(* Bounds of the model.                                                    *)

LastYear == 1967

ShortLastYear == 1966

MaxLookBack == 2

MaxCount == 4

MaxExponent == 3

Years == FirstYear..LastYear

ShortYears == FirstYear..ShortLastYear

-----------------------------------------------------------------------------
(* Python built-ins used by get_analog.                                    *)

Min(a, b) == IF a <= b THEN a ELSE b

Max(a, b) == IF a >= b THEN a ELSE b

abs(x) == IF x < 0 THEN -x ELSE x

\* range(a, b)
range(a, b) == [i \in 1..Max(0, b - a) |-> a + i - 1]

\* sum(vector)
RECURSIVE sum(_)
sum(v) == IF v = <<>> THEN 0 ELSE v[1] + sum(Tail(v))

\* list(chain.from_iterable(lists))
RECURSIVE chain(_)
chain(lists) == IF lists = <<>> THEN <<>> ELSE lists[1] \o chain(Tail(lists))

SliceOneMore(lst, n) ==
    IF n >= 0 THEN SubSeq(lst, 1, IF n + 1 <= Len(lst) THEN n + 1 ELSE Len(lst))
    ELSE SubSeq(lst, 1, IF Len(lst) + n >= 0 THEN Len(lst) + n ELSE 0)

\* lst[:n], also for negative n
Slice(lst, n) ==
    IF n >= 0 THEN SubSeq(lst, 1, Min(n, Len(lst)))
    ELSE SubSeq(lst, 1, Max(0, Len(lst) + n))

\* zip(a, b): the pairs up to the shorter length
zip(a, b) == [i \in 1..Min(Len(a), Len(b)) |-> <<a[i], b[i]>>]

\* list(d.keys())
Keys(d) == [i \in DOMAIN d |-> d[i][1]]

\* d[k] for a key that is present
Get(d, k) == d[CHOOSE i \in DOMAIN d : d[i][1] = k][2]

\* d[k] = v: a present key keeps its position, a new key goes last
Put(d, k, v) ==
    IF \E i \in DOMAIN d : d[i][1] = k
    THEN [i \in DOMAIN d |-> IF d[i][1] = k THEN <<k, v>> ELSE d[i]]
    ELSE Append(d, <<k, v>>)

\* lst.index(x) + 1: the 1-based place of the first occurrence
Place(lst, x) == CHOOSE i \in DOMAIN lst :
                    lst[i] = x /\ \A j \in 1..(i - 1) : lst[j] # x

\* sorted(items, key=Key): stable, built by inserting each item after the
\* items already placed whose key is not greater
InsertBeforeEqual(placed, entry) ==
    LET p == Cardinality({i \in DOMAIN placed : placed[i][1] < entry[1]})
    IN  SubSeq(placed, 1, p) \o <<entry>> \o SubSeq(placed, p + 1, Len(placed))

\* sorted(items, key=...): stable.  An entry is <<key, item>>; each entry is
\* inserted after the entries already placed whose key is not greater
InsertStable(placed, entry) ==
    LET p == Cardinality({i \in DOMAIN placed : placed[i][1] <= entry[1]})
    IN  SubSeq(placed, 1, p) \o <<entry>> \o SubSeq(placed, p + 1, Len(placed))

RECURSIVE SortEntries(_)
SortEntries(entries) ==
    IF entries = <<>> THEN <<>>
    ELSE InsertStable(SortEntries(SubSeq(entries, 1, Len(entries) - 1)),
                      entries[Len(entries)])

\* sorted(items, key=...), keys[i] being the key of items[i]
sorted(items, keys) ==
    LET placed == SortEntries([i \in DOMAIN items |-> <<keys[i], items[i]>>])
    IN  [i \in DOMAIN placed |-> placed[i][2]]

-----------------------------------------------------------------------------
(* get_analog, line by line.                                               *)

\* line 43 and 45: oni_analogs = {} and pdo_analogs = {}
EmptyDict == <<>>

AnalogsOfLastCall == analogs

\* line 85: analogs = {}, a fresh dict on every call
FreshAnalogs == <<>>

EffectiveStartUnshifted(lb, sy) == sy

\* line 48-51: start_year += look_back when look_back is not 0
EffectiveStart(lb, sy) == IF lb = 0 THEN sy ELSE sy + lb

PoolThroughTarget(y, lb, sy) ==
    range(IF lb = 0 THEN sy ELSE sy + lb, y + 1)

\* line 59 and 87: range(start_year, year)
Pool(y, lb, sy) == range(EffectiveStart(lb, sy), y)

\* the years whose ONI entry is read for year y (line 49/54, 61/65)
OniYears(y, lb) == IF lb = 0 THEN <<y>> ELSE range(y - lb, y + 1)

PdoYearsWindow(y, lb) == OniYears(y, lb)

\* the years whose PDO entry is read for year y (line 57, 68)
PdoYears(y, lb) == <<y>>

\* the store lookups of one year, in execution order
ReadsOf(y, lb) ==
    [i \in DOMAIN OniYears(y, lb) |-> <<"oni", OniYears(y, lb)[i]>>]
    \o [i \in DOMAIN PdoYears(y, lb) |-> <<"pdo", PdoYears(y, lb)[i]>>]

\* every store lookup of a call, in execution order (line 48-68)
RECURSIVE PoolReads(_, _)
PoolReads(pool, lb) ==
    IF pool = <<>> THEN <<>>
    ELSE ReadsOf(pool[1], lb) \o PoolReads(Tail(pool), lb)

Reads(y, lb, sy) == ReadsOf(y, lb) \o PoolReads(Pool(y, lb, sy), lb)

Present(read) ==
    IF read[1] = "oni" THEN read[2] \in DOMAIN oni_values
    ELSE read[2] \in DOMAIN pdo_values

\* the first lookup that raises KeyError, 0 when none does
FirstMissing(reads) ==
    IF \A i \in DOMAIN reads : Present(reads[i]) THEN 0
    ELSE CHOOSE i \in DOMAIN reads :
            ~Present(reads[i]) /\ \A j \in 1..(i - 1) : Present(reads[j])

OniProgressionOneYear(y, lb) == oni_values[y]

\* line 49-56 and 61-67
OniProgression(y, lb) ==
    IF lb = 0 THEN oni_values[y]
    ELSE chain([i \in DOMAIN range(y - lb, y + 1) |->
                    oni_values[range(y - lb, y + 1)[i]]])

\* line 57 and 68
PdoProgression(y, lb) == pdo_values[y]

TruncateOneShort(analog, current) == Slice(analog, Len(current) - 1)

\* line 70-71: analog_progression[:len(current_progression)]
Truncate(analog, current) == Slice(analog, Len(current))

DistancesUnraised(analog, current, e) ==
    LET pairs == zip(Slice(analog, Len(current)), current)
    IN  [i \in DOMAIN pairs |-> abs(pairs[i][1] - pairs[i][2])]

\* line 73-80: abs(analog_value - current_value) ** raise_to over the zip
Distances(analog, current, e) ==
    LET pairs == zip(Truncate(analog, current), current)
    IN  [i \in DOMAIN pairs |-> abs(pairs[i][1] - pairs[i][2]) ^ e]

\* the progression of year y for one signal
Progression(signal, y, lb) ==
    IF signal = "oni" THEN OniProgression(y, lb) ELSE PdoProgression(y, lb)

\* line 59-80: the loop filling one signal's dict
RECURSIVE FillDistances(_, _, _, _, _, _)
FillDistances(d, pool, lb, current, e, signal) ==
    IF pool = <<>> THEN d
    ELSE FillDistances(
            Put(d, pool[1],
                Distances(Progression(signal, pool[1], lb), current, e)),
            Tail(pool), lb, current, e, signal)

\* line 82-83: key=lambda pair: sum(pair[1])
TotalDistance(pair) == sum(pair[2])

TotalDistances(d) == [i \in DOMAIN d |-> TotalDistance(d[i])]

FusedScoreUndivided(oni_place, pdo_place) == <<oni_place + pdo_place, 0>>

\* line 91: (oni_place + pdo_place) / 2, as <<whole, halves>>
FusedScore(oni_place, pdo_place) ==
    <<(oni_place + pdo_place) \div 2, (oni_place + pdo_place) % 2>>

\* line 93: key=itemgetter(1); scores compare as numbers
ScoreKey(pair) == 2 * pair[2][1] + pair[2][2]

ScoreKeys(d) == [i \in DOMAIN d |-> ScoreKey(d[i])]

\* line 87-91: the loop filling the fused dict
RECURSIVE FillScores(_, _, _, _)
FillScores(d, pool, oni_sorted, pdo_sorted) ==
    IF pool = <<>> THEN d
    ELSE FillScores(
            Put(d, pool[1],
                FusedScore(Place(Keys(oni_sorted), pool[1]),
                           Place(Keys(pdo_sorted), pool[1]))),
            Tail(pool), oni_sorted, pdo_sorted)

NoOutcome == [kind |-> "none", result |-> <<>>, signal |-> "", key |-> 0]

Returned(list) == [kind |-> "return", result |-> list, signal |-> "", key |-> 0]

KeyError(read) ==
    [kind |-> "KeyError", result |-> <<>>, signal |-> read[1], key |-> read[2]]

NoEarlier == [noted |-> FALSE, others |-> FALSE]

\* get_analog(year, look_back, start_year, raise_to, years_to_return).
\* Each local is bound to its value once, in the order of the code.
get_analog(y, lb, sy, e, k) ==
    LET reads == Reads(y, lb, sy)
        miss  == FirstMissing(reads)
        pool  == Pool(y, lb, sy)
    IN  /\ year' = y
        /\ look_back' = lb
        /\ start_year' = sy
        /\ raise_to' = e
        /\ years_to_return' = k
        /\ UNCHANGED <<oni_values, pdo_values>>
        /\ IF miss # 0
           THEN /\ outcome' = KeyError(reads[miss])
                /\ current_oni_progression' = <<>>
                /\ current_pdo_progression' = <<>>
                /\ analog_oni_progression' = EmptyDict
                /\ analog_pdo_progression' = EmptyDict
                /\ oni_analogs' = EmptyDict
                /\ pdo_analogs' = EmptyDict
                /\ analogs' = EmptyDict
           ELSE \E cur_oni \in {OniProgression(y, lb)},
                   cur_pdo \in {PdoProgression(y, lb)} :
                \E oni_d \in {FillDistances(EmptyDict, pool, lb, cur_oni, e,
                                            "oni")},
                   pdo_d \in {FillDistances(EmptyDict, pool, lb, cur_pdo, e,
                                            "pdo")} :
                \E oni_s \in {sorted(oni_d, TotalDistances(oni_d))},
                   pdo_s \in {sorted(pdo_d, TotalDistances(pdo_d))} :
                \E scores \in {FillScores(FreshAnalogs, pool, oni_s, pdo_s)} :
                \E fused \in {sorted(scores, ScoreKeys(scores))} :
                    /\ current_oni_progression' = cur_oni
                    /\ current_pdo_progression' = cur_pdo
                    /\ analog_oni_progression' =
                          [i \in DOMAIN pool |->
                              <<pool[i], OniProgression(pool[i], lb)>>]
                    /\ analog_pdo_progression' =
                          [i \in DOMAIN pool |->
                              <<pool[i], PdoProgression(pool[i], lb)>>]
                    /\ oni_analogs' = oni_s
                    /\ pdo_analogs' = pdo_s
                    /\ analogs' = fused
                    /\ outcome' = Returned(Slice(Keys(fused), k))

-----------------------------------------------------------------------------
(* Specifications.  Each draws the signal store at Init and then calls     *)
(* get_analog with arguments drawn from bounded sets.  The store is what   *)
(* retrieve_oni_values and retrieve_pdo_values load: a dict from year to   *)
(* a list of observations, possibly lacking some years.                    *)

Quiet ==
    /\ year = FirstYear
    /\ look_back = DefaultLookBack
    /\ start_year = FirstYear
    /\ raise_to = DefaultRaiseTo
    /\ years_to_return = DefaultYearsToReturn
    /\ current_oni_progression = <<>>
    /\ current_pdo_progression = <<>>
    /\ analog_oni_progression = EmptyDict
    /\ analog_pdo_progression = EmptyDict
    /\ oni_analogs = EmptyDict
    /\ pdo_analogs = EmptyDict
    /\ analogs = EmptyDict
    /\ outcome = NoOutcome
    /\ earlier = NoEarlier

Called == outcome.kind # "none"

\* The series over a set of years, each year's list drawn from choices.
SeriesOver(years, choices) == [years -> choices]

\* The series that may lack any of the years.
PartialSeries(years, choices) ==
    UNION {SeriesOver(present, choices) : present \in SUBSET years}

(* Spec: ranking and selection.  Every year is present with one            *)
(* observation; one call per store.                                        *)

OniLevels == {<<0>>, <<1>>}

PdoLevels == {<<0>>, <<1>>, <<2>>}

Init ==
    /\ oni_values \in SeriesOver(Years, OniLevels)
    /\ pdo_values \in SeriesOver(Years, PdoLevels)
    /\ Quiet

Call ==
    /\ ~Called
    /\ \E y \in Years, lb \in {DefaultLookBack, 1}, k \in -1..MaxCount :
          get_analog(y, lb, FirstYear, DefaultRaiseTo, k)
    /\ UNCHANGED earlier

Next == Call

Spec == Init /\ [][Next]_vars

(* SpecLookup: which years a call reads and which it returns.  Any year    *)
(* may be absent from either series; one call per store.                   *)

InitLookup ==
    /\ oni_values \in PartialSeries(Years, {<<0>>})
    /\ pdo_values \in PartialSeries(Years, {<<0>>})
    /\ Quiet

CallLookup ==
    /\ ~Called
    /\ \E y \in Years, lb \in 0..MaxLookBack, sy \in {FirstYear, FirstYear + 1},
          k \in -1..MaxCount :
          get_analog(y, lb, sy, DefaultRaiseTo, k)
    /\ UNCHANGED earlier

NextLookup == CallLookup

SpecLookup == InitLookup /\ [][NextLookup]_vars

(* SpecShape: progressions and distance vectors.  The observation lists    *)
(* differ in length; one call per store.                                   *)

ShapeLists == {<<0>>, <<1, 2>>, <<2, 0, 1>>}

InitShape ==
    /\ oni_values \in SeriesOver(ShortYears, ShapeLists)
    /\ pdo_values \in SeriesOver(ShortYears, ShapeLists)
    /\ Quiet

CallShape ==
    /\ ~Called
    /\ \E y \in ShortYears, lb \in 0..MaxLookBack, e \in {DefaultRaiseTo, 2} :
          get_analog(y, lb, FirstYear, e, DefaultYearsToReturn)
    /\ UNCHANGED earlier

NextShape == CallShape

SpecShape == InitShape /\ [][NextShape]_vars

(* SpecExponent: the effect of raise_to.  Each list is level, has one      *)
(* large value or has two smaller ones; one call per store.                *)

ExponentLists == {<<0, 0, 0>>, <<3, 0, 0>>, <<2, 2, 0>>}

InitExponent ==
    /\ oni_values \in SeriesOver(ShortYears, ExponentLists)
    /\ pdo_values \in SeriesOver(ShortYears, ExponentLists)
    /\ Quiet

CallExponent ==
    /\ ~Called
    /\ \E y \in ShortYears, e \in 1..MaxExponent :
          get_analog(y, DefaultLookBack, FirstYear, e, DefaultYearsToReturn)
    /\ UNCHANGED earlier

NextExponent == CallExponent

SpecExponent == InitExponent /\ [][NextExponent]_vars

(* SpecRepeat: call after call on one store.  The caller may note one      *)
(* call (its arguments, its outcome and the store it ran on) and compare   *)
(* later calls with it; it also notes whether a call with other arguments  *)
(* has been made since.                                                    *)

InitRepeat ==
    /\ oni_values \in SeriesOver(ShortYears, OniLevels)
    /\ pdo_values \in SeriesOver(ShortYears, OniLevels)
                      \cup SeriesOver(ShortYears \ {FirstYear}, OniLevels)
    /\ Quiet

CallRepeat ==
    \E y \in ShortYears, lb \in {DefaultLookBack, 1} :
        /\ get_analog(y, lb, FirstYear, DefaultRaiseTo, DefaultYearsToReturn)
        /\ earlier' =
              IF earlier.noted /\ earlier.arguments # arguments'
              THEN [earlier EXCEPT !.others = TRUE]
              ELSE earlier

Note ==
    /\ Called
    /\ ~earlier.noted
    /\ earlier' = [noted |-> TRUE, others |-> FALSE, arguments |-> arguments,
                   outcome |-> outcome, store |-> store]
    /\ UNCHANGED <<oni_values, pdo_values, year, look_back, start_year,
                   raise_to, years_to_return, current_oni_progression,
                   current_pdo_progression, analog_oni_progression,
                   analog_pdo_progression, oni_analogs, pdo_analogs, analogs,
                   outcome>>

NextRepeat == CallRepeat \/ Note

SpecRepeat == InitRepeat /\ [][NextRepeat]_vars

-----------------------------------------------------------------------------
(* Vocabulary of the properties, stated on the arguments, the store and    *)
(* the locals of the latest call.                                          *)

\* the candidate pool of the latest call: [start_year + look_back, year - 1]
CandidateYears == (start_year + look_back)..(year - 1)

Position(list, x) == CHOOSE i \in DOMAIN list : list[i] = x

InResult(y) == \E i \in DOMAIN outcome.result : outcome.result[i] = y

\* a fused score <<whole, halves>> in halves
Halves(score) == 2 * score[1] + score[2]

Score(y) == Halves(Get(analogs, y))

\* y comes before z: lower fused score, or the same score and the lower year
ComesBefore(y, z) == Score(y) < Score(z) \/ (Score(y) = Score(z) /\ y < z)

\* the total distance of candidate y in one signal's dict
Total(d, y) == sum(Get(d, y))

\* the 1-based rank of y by ascending total distance, ties by ascending year
Rank(d, y) ==
    1 + Cardinality({z \in CandidateYears :
                        \/ Total(d, z) < Total(d, y)
                        \/ (Total(d, z) = Total(d, y) /\ z < y)})

(* C1: the returned list holds candidates of the pool in ascending fused   *)
(* score, equal scores in ascending year: any two returned years are in    *)
(* that order and every candidate left out comes after every returned      *)
(* year; for years_to_return >= 0 it is the first years_to_return years    *)
(* of that order, so that nothing is left out while the list is shorter.   *)
C1_ResultIsTopOfFusedOrder ==
    outcome.kind = "return" =>
        LET r == outcome.result
        IN  /\ \A i \in DOMAIN r : r[i] \in CandidateYears
            /\ \A i, j \in DOMAIN r : i < j => ComesBefore(r[i], r[j])
            /\ \A p \in CandidateYears :
                  ~InResult(p) =>
                      /\ \A i \in DOMAIN r : ComesBefore(r[i], p)
                      /\ years_to_return >= 0 => Len(r) = years_to_return

\* C1 happens: two of three candidates are returned, they tie on the fused
\* score, and the candidate left out is the earliest year.
C1_Witness ==
    /\ outcome.kind = "return"
    /\ Cardinality(CandidateYears) = 3
    /\ Len(outcome.result) = 2
    /\ Score(outcome.result[1]) = Score(outcome.result[2])
    /\ ~InResult(start_year + look_back)

(* C7: the fused score of every candidate is (rank in ONI + rank in PDO)   *)
(* / 2, the ranks being 1-based positions by ascending total distance with *)
(* ties in ascending year; when ONI orders three candidates Y1, Y2, Y3 and *)
(* PDO orders them Y3, Y2, Y1, every fused score is 2 and the years are    *)
(* returned as Y1, Y2, Y3 (as many of them as years_to_return asks for).   *)
C7_FusedScoreIsMeanOfRanks ==
    outcome.kind = "return" =>
        /\ \A y \in CandidateYears :
              /\ Get(analogs, y)[2] \in {0, 1}
              /\ Score(y) = Rank(oni_analogs, y) + Rank(pdo_analogs, y)
        /\ ( /\ Cardinality(CandidateYears) = 3
             /\ \A y \in CandidateYears :
                   /\ Rank(oni_analogs, y) = y - (start_year + look_back) + 1
                   /\ Rank(pdo_analogs, y) = year - y )
           => /\ \A y \in CandidateYears : Get(analogs, y) = <<2, 0>>
              /\ years_to_return >= 0 =>
                    Len(outcome.result) = Min(years_to_return, 3)
              /\ \A i \in DOMAIN outcome.result :
                    outcome.result[i] = start_year + look_back + i - 1

\* C7 happens: three candidates, ONI ranks them Y1, Y2, Y3 by strictly
\* growing distance or by ties, PDO ranks them Y3, Y2, Y1, all are returned.
C7_Witness ==
    /\ outcome.kind = "return"
    /\ Cardinality(CandidateYears) = 3
    /\ years_to_return >= 3
    /\ \A y \in CandidateYears :
          /\ Rank(oni_analogs, y) = y - (start_year + look_back) + 1
          /\ Rank(pdo_analogs, y) = year - y
    /\ Total(oni_analogs, year - 1) > Total(oni_analogs, year - 3)

-----------------------------------------------------------------------------
(* Properties of the lookups and of the range of the result, for the       *)
(* behaviours of SpecLookup.                                               *)

\* the years of the look-back window of year y
Window(y) == (y - look_back)..y

\* the years of the ONI series the latest call needs: the window of the
\* target and of every candidate
OniNeeded == Window(year) \cup UNION {Window(c) : c \in CandidateYears}

\* the years of the PDO series the latest call needs: the target and the
\* candidates
PdoNeeded == {year} \cup CandidateYears

(* C2: for years_to_return >= 0 the returned list has                      *)
(* min(years_to_return, pool size) years, the pool being the years of      *)
(* [start_year + look_back, year - 1].                                     *)
C2_ResultLength ==
    (outcome.kind = "return" /\ years_to_return >= 0) =>
        Len(outcome.result) = Min(years_to_return, Cardinality(CandidateYears))

\* C2 happens: more years are asked for than the pool of two or more holds.
C2_Witness ==
    /\ outcome.kind = "return"
    /\ Cardinality(CandidateYears) >= 2
    /\ years_to_return > Cardinality(CandidateYears)
    /\ Len(outcome.result) = Cardinality(CandidateYears)

(* C3: every returned year y has start_year + look_back <= y < year.       *)
C3_ResultWithinPool ==
    outcome.kind = "return" =>
        \A i \in DOMAIN outcome.result :
            /\ start_year + look_back <= outcome.result[i]
            /\ outcome.result[i] < year

\* C3 happens: look_back = 2 and start_year = 1964 return the year 1966.
C3_Witness ==
    /\ outcome.kind = "return"
    /\ look_back = 2
    /\ start_year = FirstYear
    /\ outcome.result = <<FirstYear + 2>>

(* C4 as claimed: a call with year <= start_year + look_back does not      *)
(* return a result (it signals a usage error).                             *)
C4_EmptyPoolIsAnError ==
    (Called /\ year <= start_year + look_back) => outcome.kind # "return"

(* C4 as amended: a call with year <= start_year + look_back signals no    *)
(* usage error: it returns the empty list when the ONI series holds the    *)
(* target's window and the PDO series holds the target year, and raises    *)
(* KeyError otherwise.                                                     *)
C4_EmptyPoolReturnsEmptyList ==
    (Called /\ year <= start_year + look_back) =>
        IF /\ Window(year) \subseteq DOMAIN oni_values
           /\ year \in DOMAIN pdo_values
        THEN outcome = Returned(<<>>)
        ELSE outcome.kind = "KeyError"

\* C4 happens: the pool is inverted, years are asked for, the list is empty.
C4_Witness ==
    /\ outcome.kind = "return"
    /\ year < start_year + look_back
    /\ years_to_return > 0
    /\ outcome.result = <<>>

(* C6 as claimed: when a year of the target's or of a candidate's          *)
(* look-back window is absent from either series, the call raises          *)
(* KeyError.                                                               *)
C6_AnyWindowYearMissingRaises ==
    (Called /\ (~(OniNeeded \subseteq DOMAIN oni_values)
                \/ ~(OniNeeded \subseteq DOMAIN pdo_values)))
        => outcome.kind = "KeyError"

(* C6 as amended: the call raises KeyError, and returns nothing, exactly   *)
(* when the ONI series lacks a year of the target's or of a candidate's    *)
(* look-back window or the PDO series lacks the target year or a           *)
(* candidate year; the key of the error is such a year.                    *)
C6_MissingReadYearRaises ==
    Called =>
        /\ outcome.kind = "KeyError" <=>
              (~(OniNeeded \subseteq DOMAIN oni_values)
               \/ ~(PdoNeeded \subseteq DOMAIN pdo_values))
        /\ outcome.kind = "KeyError" =>
              /\ outcome.result = <<>>
              /\ \/ /\ outcome.signal = "oni"
                    /\ outcome.key \in OniNeeded \ DOMAIN oni_values
                 \/ /\ outcome.signal = "pdo"
                    /\ outcome.key \in PdoNeeded \ DOMAIN pdo_values

\* C6 happens: the only absent year is in the look-back window of a
\* candidate and is neither the target nor a candidate.
C6_Witness ==
    /\ outcome.kind = "KeyError"
    /\ outcome.signal = "oni"
    /\ look_back > 0
    /\ outcome.key \notin CandidateYears \cup Window(year)
    /\ DOMAIN oni_values = Years \ {outcome.key}
    /\ DOMAIN pdo_values = Years

-----------------------------------------------------------------------------
(* Properties of the progressions and of the distance vectors, for the     *)
(* behaviours of SpecShape.                                                *)

\* the number of observations of the years lo..hi of a series
RECURSIVE Observations(_, _, _)
Observations(series, lo, hi) ==
    IF lo > hi THEN 0
    ELSE Len(series[hi]) + Observations(series, lo, hi - 1)

\* progression holds the lists of the years [y - look_back, y] of a series,
\* one after the other in ascending year
IsWindowOf(progression, series, y) ==
    /\ Len(progression) = Observations(series, y - look_back, y)
    /\ \A z \in Window(y) : \A i \in 1..Len(series[z]) :
          progression[Observations(series, y - look_back, z - 1) + i]
              = series[z][i]

\* vector holds |candidate[i] - target[i]| ** raise_to for every i that both
\* progressions have
IsDistanceOf(vector, candidate, target) ==
    /\ Len(vector) = Min(Len(candidate), Len(target))
    /\ \A i \in DOMAIN vector :
          vector[i] = abs(candidate[i] - target[i]) ^ raise_to

(* C5 as claimed: for ONI and for PDO alike, the progression of the target *)
(* and of every candidate holds the lists of the years                     *)
(* [y - look_back, y] in ascending year.                                   *)
C5_BothSignalsLookBack ==
    outcome.kind = "return" =>
        /\ IsWindowOf(current_oni_progression, oni_values, year)
        /\ IsWindowOf(current_pdo_progression, pdo_values, year)
        /\ \A c \in CandidateYears :
              /\ IsWindowOf(Get(analog_oni_progression, c), oni_values, c)
              /\ IsWindowOf(Get(analog_pdo_progression, c), pdo_values, c)

(* C5 as amended: the ONI progression of the target and of every candidate *)
(* holds the ONI lists of the years [y - look_back, y] in ascending year;  *)
(* the PDO progression is the PDO list of the year y alone, whatever       *)
(* look_back is; each signal's distance vector is computed between these   *)
(* progressions; with look_back = 0 both progressions are the year's list. *)
C5_OnlyOniLooksBack ==
    outcome.kind = "return" =>
        /\ IsWindowOf(current_oni_progression, oni_values, year)
        /\ current_pdo_progression = pdo_values[year]
        /\ look_back = 0 => current_oni_progression = oni_values[year]
        /\ \A c \in CandidateYears :
              /\ IsWindowOf(Get(analog_oni_progression, c), oni_values, c)
              /\ Get(analog_pdo_progression, c) = pdo_values[c]
              /\ look_back = 0 => Get(analog_oni_progression, c) = oni_values[c]
              /\ IsDistanceOf(Get(oni_analogs, c),
                              Get(analog_oni_progression, c),
                              current_oni_progression)
              /\ IsDistanceOf(Get(pdo_analogs, c),
                              Get(analog_pdo_progression, c),
                              current_pdo_progression)

\* C5 happens: a call with look_back > 0 returns a candidate whose ONI
\* progression spans years with different lists.
C5_Witness ==
    /\ outcome.kind = "return"
    /\ look_back > 0
    /\ \E c \in CandidateYears :
          /\ InResult(c)
          /\ oni_values[c - 1] # oni_values[c]
          /\ Len(Get(analog_oni_progression, c)) > Len(oni_values[c])
          /\ Len(Get(analog_pdo_progression, c)) = Len(pdo_values[c])

(* C8: when a candidate's progression is longer than the target's, its     *)
(* distance vector has as many elements as the target's progression and    *)
(* element i is |candidate[i] - target[i]| ** raise_to, so that the total  *)
(* distance is the sum over the target's indices only.                     *)
C8_LongerCandidateIsTruncated ==
    outcome.kind = "return" =>
        \A c \in CandidateYears :
            /\ Len(Get(analog_oni_progression, c)) > Len(current_oni_progression)
                  => /\ Len(Get(oni_analogs, c)) = Len(current_oni_progression)
                     /\ \A i \in 1..Len(current_oni_progression) :
                           Get(oni_analogs, c)[i] =
                               abs(Get(analog_oni_progression, c)[i]
                                   - current_oni_progression[i]) ^ raise_to
            /\ Len(Get(analog_pdo_progression, c)) > Len(current_pdo_progression)
                  => /\ Len(Get(pdo_analogs, c)) = Len(current_pdo_progression)
                     /\ \A i \in 1..Len(current_pdo_progression) :
                           Get(pdo_analogs, c)[i] =
                               abs(Get(analog_pdo_progression, c)[i]
                                   - current_pdo_progression[i]) ^ raise_to

\* C8 happens: a candidate of three observations is scored against a target
\* of two, with raise_to = 2, and its third observation is left out.
C8_Witness ==
    /\ outcome.kind = "return"
    /\ raise_to = 2
    /\ Len(current_pdo_progression) = 2
    /\ \E c \in CandidateYears :
          /\ Len(Get(analog_pdo_progression, c)) = 3
          /\ Get(pdo_analogs, c) = <<1, 4>>
          /\ Total(pdo_analogs, c) = 5

-----------------------------------------------------------------------------
(* Property of the exponent, for the behaviours of SpecExponent.           *)

\* |candidate[i] - target[i]| before it is raised
Deviation(candidate, target) ==
    [i \in 1..Min(Len(candidate), Len(target)) |->
        abs(candidate[i] - target[i])]

OniDeviation(c) ==
    Deviation(Get(analog_oni_progression, c), current_oni_progression)

PdoDeviation(c) ==
    Deviation(Get(analog_pdo_progression, c), current_pdo_progression)

\* one large deviation, and two smaller ones with a larger sum
OneLarge == <<3, 0, 0>>

TwoSmall == <<2, 2, 0>>

\* in the dict d, candidate a has the lower total distance and the earlier
\* place at raise_to = 1, and candidate b has them at raise_to = 3
SignalFlips(d, a, b) ==
    /\ raise_to = 1 => /\ Total(d, a) < Total(d, b)
                       /\ Position(Keys(d), a) < Position(Keys(d), b)
    /\ raise_to = 3 => /\ Total(d, b) < Total(d, a)
                       /\ Position(Keys(d), b) < Position(Keys(d), a)

\* in the returned list, a is ahead of b at raise_to = 1 and b is ahead of a
\* at raise_to = 3
ResultFlips(a, b) ==
    (InResult(a) /\ InResult(b)) =>
        /\ raise_to = 1 =>
              Position(outcome.result, a) < Position(outcome.result, b)
        /\ raise_to = 3 =>
              Position(outcome.result, b) < Position(outcome.result, a)

(* C9 as claimed: when, in a signal, candidate a deviates from the target  *)
(* by [3,0,0] and candidate b by [2,2,0], a has the lower total distance   *)
(* and ranks first at raise_to = 1, b at raise_to = 3, and the returned    *)
(* list orders the two accordingly.                                        *)
C9_ResultFlipsWithOneSignal ==
    outcome.kind = "return" =>
        \A a, b \in CandidateYears :
            /\ (OniDeviation(a) = OneLarge /\ OniDeviation(b) = TwoSmall)
                  => SignalFlips(oni_analogs, a, b) /\ ResultFlips(a, b)
            /\ (PdoDeviation(a) = OneLarge /\ PdoDeviation(b) = TwoSmall)
                  => SignalFlips(pdo_analogs, a, b) /\ ResultFlips(a, b)

(* C9 as amended: when, in a signal, candidate a deviates from the target  *)
(* by [3,0,0] and candidate b by [2,2,0], a has the lower total distance   *)
(* and the earlier place in that signal at raise_to = 1, and b at          *)
(* raise_to = 3; the returned list orders the two accordingly when they    *)
(* deviate so in both signals.                                             *)
C9_ResultFlipsWithBothSignals ==
    outcome.kind = "return" =>
        \A a, b \in CandidateYears :
            /\ (OniDeviation(a) = OneLarge /\ OniDeviation(b) = TwoSmall)
                  => SignalFlips(oni_analogs, a, b)
            /\ (PdoDeviation(a) = OneLarge /\ PdoDeviation(b) = TwoSmall)
                  => SignalFlips(pdo_analogs, a, b)
            /\ ( /\ OniDeviation(a) = OneLarge /\ OniDeviation(b) = TwoSmall
                 /\ PdoDeviation(a) = OneLarge /\ PdoDeviation(b) = TwoSmall )
                  => ResultFlips(a, b)

\* C9 happens: at raise_to = 3 the later year, with the two small
\* deviations in both signals, is returned ahead of the earlier year, with
\* the one large deviation.
C9_Witness ==
    /\ outcome.kind = "return"
    /\ raise_to = 3
    /\ \E a, b \in CandidateYears :
          /\ a < b
          /\ OniDeviation(a) = OneLarge /\ OniDeviation(b) = TwoSmall
          /\ PdoDeviation(a) = OneLarge /\ PdoDeviation(b) = TwoSmall
          /\ Total(oni_analogs, a) = 27 /\ Total(oni_analogs, b) = 16
          /\ outcome.result = <<b, a>>

-----------------------------------------------------------------------------
(* Property of repeated calls, for the behaviours of SpecRepeat.           *)

(* C10: a call with the arguments of an earlier call, on the store that    *)
(* call ran on, has the outcome of the earlier call (the same list or the  *)
(* same error), whatever calls were made in between; and no call changes   *)
(* the store.                                                              *)
C10_SameCallSameOutcome ==
    earlier.noted =>
        /\ store = earlier.store
        /\ arguments = earlier.arguments => outcome = earlier.outcome

\* C10 happens: the noted call returned years, calls with other arguments
\* followed, and the noted call is made again.
C10_Witness ==
    /\ earlier.noted
    /\ earlier.others
    /\ arguments = earlier.arguments
    /\ outcome.kind = "return"
    /\ Len(outcome.result) = 1

====
